---- MODULE Spec2Model ----
(***************************************************************************)
(* A model of solrdump (src/main.go): the start-up sequence of main, the   *)
(* loop that drains the result channel of glsolr.CursorSelect, the write   *)
(* goroutine started for every page, the WaitGroup join and the exit.      *)
(*                                                                         *)
(* A Go string is a sequence of one-character strings, so that formatting, *)
(* joining and matching are computed character by character.               *)
(***************************************************************************)
EXTENDS Integers, Sequences, FiniteSets, Bags, TLC

(***************************************************************************)
(* Bounds of the model.                                                    *)
(***************************************************************************)
\* the producer yields at most MaxResults results before it closes the channel
MaxResults == 3

\* a dst.Write that fails has written at most MaxShort tokens of its data
MaxShort == 1

\* the streams of the runs checked for termination have at most
\* MaxFairResults results
MaxFairResults == 2

(***************************************************************************)
(* Characters and strings.                                                 *)
(***************************************************************************)
Digits == <<"0", "1", "2", "3", "4", "5", "6", "7", "8", "9">>

DigitSet == {Digits[k] : k \in 1..10}

OctalSet == {Digits[k] : k \in 1..8}

LowerSet == {"a", "b", "c", "d", "e", "f", "g", "h", "i", "j", "k", "l", "m",
             "n", "o", "p", "q", "r", "s", "t", "u", "v", "w", "x", "y", "z"}

UpperSet == {"A", "B", "C", "D", "E", "F", "G", "H", "I", "J", "K", "L", "M",
             "N", "O", "P", "Q", "R", "S", "T", "U", "V", "W", "X", "Y", "Z"}

\* the class [a-z0-9-.] of reLink
HostChars == LowerSet \cup DigitSet \cup {"-", "."}

\* the class [\\._A-Za-z0-9\\-] of reLink: the raw Go string holds two
\* backslashes, which the regular expression reads as one literal backslash
ColChars == LowerSet \cup UpperSet \cup DigitSet \cup {"\\", ".", "_", "-"}

AllIn(s, set) == \A k \in 1..Len(s) : s[k] \in set

HasPrefix(s, p) == Len(s) >= Len(p) /\ SubSeq(s, 1, Len(p)) = p

Drop(s, n) == SubSeq(s, n + 1, Len(s))

\* strings.Index for a one-character needle, 1-based; 0 when absent
IndexOf(s, c) ==
    IF \E k \in 1..Len(s) : s[k] = c
    THEN CHOOSE k \in 1..Len(s) : s[k] = c /\ \A j \in 1..(k - 1) : s[j] # c
    ELSE 0

\* strings.Replace(s, old, new, 1) for one-character old and new
ReplaceFirst(s, old, new) ==
    LET k == IndexOf(s, old)
    IN  IF k = 0 THEN s ELSE [s EXCEPT ![k] = new]

\* fmt.Sprintf("%d", n) for n >= 0
RECURSIVE Itoa(_)
Itoa(n) ==
    IF n < 10 THEN <<Digits[n + 1]>>
    ELSE Itoa(n \div 10) \o <<Digits[(n % 10) + 1]>>

\* two decimal digits, zero padded: the 01, 02, 15, 04, 05 verbs of timeFmt
Pad2(n) == <<Digits[(n \div 10) + 1], Digits[(n % 10) + 1]>>

\* four decimal digits, zero padded: the 2006 verb of timeFmt
Pad4(n) == Pad2(n \div 100) \o Pad2(n % 100)

\* time.Time.Format(timeFmt) with timeFmt = "20060102-150405"
FormatTime(t) ==
    Pad4(t.year) \o Pad2(t.month) \o Pad2(t.day) \o <<"-">>
        \o Pad2(t.hour) \o Pad2(t.min) \o Pad2(t.sec)

(***************************************************************************)
(* path.Join / filepath.Join (the same function on the slash-separated     *)
(* paths of a Unix build): the non-empty elements joined by "/" and        *)
(* cleaned as path.Clean does.                                             *)
(***************************************************************************)
\* the components of s between slashes (empty components included)
RECURSIVE SplitSlash(_)
SplitSlash(s) ==
    LET k == IndexOf(s, "/")
    IN  IF k = 0 THEN <<s>>
        ELSE <<SubSeq(s, 1, k - 1)>> \o SplitSlash(Drop(s, k))

RECURSIVE JoinSlash(_)
JoinSlash(comps) ==
    IF Len(comps) = 0 THEN <<>>
    ELSE IF Len(comps) = 1 THEN comps[1]
    ELSE comps[1] \o <<"/">> \o JoinSlash(Tail(comps))

\* path.Clean's walk over the components: "" and "." are dropped, ".." removes
\* the component before it, is dropped at the root and kept at the start of a
\* relative path
RECURSIVE CleanComps(_, _, _)
CleanComps(comps, acc, rooted) ==
    IF Len(comps) = 0 THEN acc
    ELSE LET c == comps[1]
             rest == Tail(comps)
         IN  IF c = <<>> \/ c = <<".">> THEN CleanComps(rest, acc, rooted)
             ELSE IF c = <<".", ".">>
             THEN IF Len(acc) > 0 /\ acc[Len(acc)] # <<".", ".">>
                  THEN CleanComps(rest, SubSeq(acc, 1, Len(acc) - 1), rooted)
                  ELSE IF rooted THEN CleanComps(rest, acc, rooted)
                  ELSE CleanComps(rest, Append(acc, c), rooted)
             ELSE CleanComps(rest, Append(acc, c), rooted)

PathClean(s) ==
    IF s = <<>> THEN <<".">>
    ELSE LET rooted == s[1] = "/"
             body == JoinSlash(CleanComps(SplitSlash(s), <<>>, rooted))
         IN  IF rooted THEN <<"/">> \o body
             ELSE IF body = <<>> THEN <<".">> ELSE body

PathJoin(a, b) ==
    IF a = <<>> /\ b = <<>> THEN <<>>
    ELSE IF a = <<>> THEN PathClean(b)
    ELSE IF b = <<>> THEN PathClean(a)
    ELSE PathClean(a \o <<"/">> \o b)

(***************************************************************************)
(* net/url.Parse, as far as defNamePattern uses it: whether the link       *)
(* parses, and the Host of the parsed URL.  The links of the model are     *)
(* ASCII and hold no "?", "#", "@", "%", "[", blank or control character.  *)
(***************************************************************************)
\* url.getScheme: the index of the colon that ends the scheme, 0 when the link
\* has no scheme, -1 when the link starts with a colon (missing scheme)
RECURSIVE SchemeColon(_, _)
SchemeColon(s, k) ==
    IF k > Len(s) THEN 0
    ELSE IF s[k] \in LowerSet \cup UpperSet THEN SchemeColon(s, k + 1)
    ELSE IF s[k] \in DigitSet \cup {"+", "-", "."}
    THEN IF k = 1 THEN 0 ELSE SchemeColon(s, k + 1)
    ELSE IF s[k] = ":" THEN IF k = 1 THEN -1 ELSE k
    ELSE 0

\* the last index of c in s, 0 when absent
LastIndexOf(s, c) ==
    IF \E k \in 1..Len(s) : s[k] = c
    THEN CHOOSE k \in 1..Len(s) : s[k] = c /\ \A j \in (k + 1)..Len(s) : s[j] # c
    ELSE 0

\* url.validOptionalPort applied to what follows the last colon of the host
ValidPort(host) ==
    LET k == LastIndexOf(host, ":")
    IN  k = 0 \/ AllIn(Drop(host, k), DigitSet)

\* the ASCII characters url.shouldEscape(c, encodeHost) lets stand in a host:
\* letters, digits, the sub-delims and :[]<>" of the host modes, and -_.~ ;
\* url.unescape(host, encodeHost) fails (InvalidHostError) on any other
UrlHostChars ==
    LowerSet \cup UpperSet \cup DigitSet
        \cup {"!", "$", "&", "'", "(", ")", "*", "+", ",", ";", "=", ":", "[", "]",
              "<", ">", "\"", "-", "_", ".", "~"}

\* url.parseHost: the port after the last colon is checked, then the host is
\* unescaped
ValidHost(host) == ValidPort(host) /\ AllIn(host, UrlHostChars)

UrlParse(link) ==
    LET colon == SchemeColon(link, 1)
        rest == IF colon > 0 THEN Drop(link, colon) ELSE link
        slash == IndexOf(rest, "/")
        firstSeg == IF slash = 0 THEN rest ELSE SubSeq(rest, 1, slash - 1)
        auth == LET a == Drop(rest, 2)
                    k == IndexOf(a, "/")
                IN  IF k = 0 THEN a ELSE SubSeq(a, 1, k - 1)
    IN  IF colon = -1 THEN [ok |-> FALSE, host |-> <<>>]
        ELSE IF ~HasPrefix(rest, <<"/">>)
        THEN IF colon > 0 THEN [ok |-> TRUE, host |-> <<>>]
             ELSE [ok |-> IndexOf(firstSeg, ":") = 0, host |-> <<>>]
        ELSE IF HasPrefix(rest, <<"/", "/">>)
                /\ (colon > 0 \/ ~HasPrefix(rest, <<"/", "/", "/">>))
        THEN IF ValidHost(auth) THEN [ok |-> TRUE, host |-> auth]
             ELSE [ok |-> FALSE, host |-> <<>>]
        ELSE [ok |-> TRUE, host |-> <<>>]

\* defNamePattern: "<host with its first colon replaced by a dot>.<colName>."
defNamePattern(colName, cLink) ==
    LET u == UrlParse(cLink)
    IN  IF ~u.ok THEN [err |-> TRUE, namePattern |-> <<>>]
        ELSE [err |-> FALSE,
              namePattern |-> ReplaceFirst(u.host, ":", ".") \o <<".">>
                                  \o colName \o <<".">>]

(***************************************************************************)
(* parceArgs: the command line, the check of the link against reLink and   *)
(* of the permission string, and the params built from them.               *)
(***************************************************************************)
\* regexp.FindStringSubmatch(reLink, link): whether the link matches, and the
\* groups 8 (collection, with its trailing slash if any) and 9 (collection
\* when a trailing slash follows it)
MatchLink(link) ==
    LET no == [ok |-> FALSE, g8 |-> <<>>, g9 |-> <<>>]
        rest == IF HasPrefix(link, <<"h", "t", "t", "p", "s", ":", "/", "/">>)
                THEN Drop(link, 8)
                ELSE Drop(link, 7)
        slash == IndexOf(rest, "/")
        hostport == SubSeq(rest, 1, slash - 1)
        colon == IndexOf(hostport, ":")
        hostOk == IF colon = 0
                  THEN Len(hostport) > 0 /\ AllIn(hostport, HostChars)
                  ELSE /\ colon > 1
                       /\ AllIn(SubSeq(hostport, 1, colon - 1), HostChars)
                       /\ Len(hostport) > colon
                       /\ AllIn(Drop(hostport, colon), DigitSet)
        path == Drop(rest, slash - 1)
        col == Drop(path, 6)
        bare == SubSeq(col, 1, Len(col) - 1)
    IN  IF ~(HasPrefix(link, <<"h", "t", "t", "p", "s", ":", "/", "/">>)
              \/ HasPrefix(link, <<"h", "t", "t", "p", ":", "/", "/">>))
        THEN no
        ELSE IF slash = 0 \/ ~hostOk THEN no
        ELSE IF ~HasPrefix(path, <<"/", "s", "o", "l", "r", "/">>) THEN no
        ELSE IF Len(col) > 0 /\ AllIn(col, ColChars)
        THEN [ok |-> TRUE, g8 |-> col, g9 |-> <<>>]
        ELSE IF Len(col) > 1 /\ col[Len(col)] = "/" /\ AllIn(bare, ColChars)
        THEN [ok |-> TRUE, g8 |-> col, g9 |-> bare]
        ELSE no

\* strconv.ParseUint(s, 8, 32) for strings of at most ten digits (a longer one
\* can leave 32 bits): the value, or an error
RECURSIVE OctalValue(_)
OctalValue(s) ==
    IF Len(s) = 0 THEN 0
    ELSE 8 * OctalValue(SubSeq(s, 1, Len(s) - 1))
             + (CHOOSE d \in 0..7 : Digits[d + 1] = s[Len(s)])

ParseOctal(s) ==
    IF Len(s) > 0 /\ AllIn(s, OctalSet)
    THEN [err |-> FALSE, val |-> OctalValue(s)]
    ELSE [err |-> TRUE, val |-> 0]

NoParams ==
    [cLink |-> <<>>, fl |-> <<>>, sort |-> <<>>, dstDir |-> <<>>,
     user |-> <<>>, passw |-> <<>>, dirPerms |-> 0]

\* parceArgs(a): a.hasC and a.hasS tell whether the required -c and -s are on
\* the command line; a.envUser and a.envPassw are the values of SOLRUSER and
\* SOLRPASSW.  os.Getenv is called and its result dropped (lines 109-115), so
\* the params hold the command line's user and password
parceArgs(a) ==
    LET m == MatchLink(a.c)
        perms == ParseOctal(a.m)
    IN  IF ~a.hasC \/ ~a.hasS \/ ~m.ok \/ perms.err
        THEN [err |-> TRUE, colName |-> <<>>, p |-> NoParams]
        ELSE [err |-> FALSE,
              colName |-> IF m.g9 = <<>> THEN m.g8 ELSE m.g9,
              p |-> [cLink |-> a.c, fl |-> a.f, sort |-> a.s, dstDir |-> a.d,
                     user |-> a.u, passw |-> a.p, dirPerms |-> perms.val]]

\* mkDir's path: path.Join(dstDir, namePattern + time.Now().Format(timeFmt))
DirPath(dstDir, namePat, now) == PathJoin(dstDir, namePat \o FormatTime(now))

\* the file of the page with index n (lines 293-294)
FullFileName(dirPath, namePat, n) ==
    PathJoin(dirPath, namePat \o Itoa(n) \o <<".", "j", "s", "o", "n">>)

(***************************************************************************)
(* JSON.  A value is a string or an integer number.  Num(hi, lo) is the    *)
(* integer hi * 2^53 + lo with hi in {0, 1} and 0 <= lo < 2^31: the        *)
(* numbers below 2^31, and the numbers from 2^53 on, where float64 (the    *)
(* type json.Unmarshal gives a number inside an interface{}) has a spacing *)
(* of 2.  A json.RawMessage is the document as the service sent it: an     *)
(* object with its members in the order of the text, or a value that is    *)
(* no object.  Arrays and nested objects as member values are left out.    *)
(***************************************************************************)
Str(s) == [t |-> "str", s |-> s, hi |-> 0, lo |-> 0]

Num(hi, lo) == [t |-> "num", s |-> "", hi |-> hi, lo |-> lo]

Member(k, v) == [k |-> k, v |-> v]

Object(members) == [obj |-> TRUE, members |-> members, scalar |-> Num(0, 0)]

Scalar(v) == [obj |-> FALSE, members |-> <<>>, scalar |-> v]

\* the member names of the model in the byte order sort.Strings gives them
KeyOrder == <<"_version_", "id", "n">>

KeyRank(k) == CHOOSE r \in 1..Len(KeyOrder) : KeyOrder[r] = k

\* float64(n) for the integer n = hi * 2^53 + lo, rounding to nearest, ties to
\* even: exact below 2^53; from 2^53 on only the even integers are float64s
ToFloat64(v) ==
    IF v.t # "num" \/ v.hi = 0 THEN v
    ELSE IF v.lo % 2 = 0 THEN v
    ELSE IF v.lo % 4 = 1 THEN Num(v.hi, v.lo - 1)
    ELSE Num(v.hi, v.lo + 1)

\* json.Unmarshal(srcDoc, &tdoc) with tdoc a map[string]interface{}: an error
\* for a value that is no object; else the map, a later member replacing an
\* earlier one of the same name, every number a float64
Unmarshal(raw) ==
    IF ~raw.obj THEN [err |-> TRUE, map |-> <<>>]
    ELSE LET keys == {raw.members[k].k : k \in 1..Len(raw.members)}
             last(key) == CHOOSE k \in 1..Len(raw.members) :
                              /\ raw.members[k].k = key
                              /\ \A j \in (k + 1)..Len(raw.members) :
                                     raw.members[j].k # key
         IN  [err |-> FALSE,
              map |-> [key \in keys |-> ToFloat64(raw.members[last(key)].v)]]

\* delete(tdoc, "_version_")
DeleteVersion(map) == [key \in DOMAIN map \ {"_version_"} |-> map[key]]

\* the keys of ks as a sequence in increasing KeyRank
RECURSIVE SortKeys(_)
SortKeys(ks) ==
    IF ks = {} THEN <<>>
    ELSE LET least == CHOOSE k \in ks : \A o \in ks : KeyRank(k) <= KeyRank(o)
         IN  <<least>> \o SortKeys(ks \ {least})

\* json.Marshal(&tdoc): the object with its members sorted by name
MarshalMap(map) ==
    LET ks == SortKeys(DOMAIN map)
    IN  Object([k \in 1..Len(ks) |-> Member(ks[k], map[ks[k]])])

(***************************************************************************)
(* The bytes of a file are a sequence of tokens: a punctuation character   *)
(* or one encoded document.                                                *)
(***************************************************************************)
Punct(c) == [p |-> c, d |-> Scalar(Num(0, 0))]

DocTok(d) == [p |-> "", d |-> d]

\* rmVerField(docs): "[", the documents decoded, stripped of _version_ and
\* encoded again with "," between them, "]\n"; an error, and no data, when a
\* document does not decode
RECURSIVE rmVerLoop(_, _, _)
rmVerLoop(docs, n, data) ==
    IF n > Len(docs)
    THEN [err |-> FALSE, data |-> data \o <<Punct("]"), Punct("\n")>>]
    ELSE LET u == Unmarshal(docs[n])
             dstDoc == MarshalMap(DeleteVersion(u.map))
             d1 == Append(data, DocTok(dstDoc))
         IN  IF u.err THEN [err |-> TRUE, data |-> <<>>]
             ELSE rmVerLoop(docs, n + 1,
                            IF n < Len(docs) THEN Append(d1, Punct(",")) ELSE d1)

rmVerField(docs) == rmVerLoop(docs, 1, <<Punct("[")>>)

\* json.Marshal(v.Response.Docs) for a []json.RawMessage that is not nil: the
\* raw documents as they are (compacted, which changes no token of the model)
\* between "[" and "]", with "," between them; it cannot fail, a RawMessage
\* that was decoded from the response being valid JSON
RECURSIVE MarshalLoop(_, _, _)
MarshalLoop(docs, n, data) ==
    IF n > Len(docs) THEN Append(data, Punct("]"))
    ELSE LET d1 == Append(data, DocTok(docs[n]))
         IN  MarshalLoop(docs, n + 1,
                         IF n < Len(docs) THEN Append(d1, Punct(",")) ELSE d1)

MarshalDocs(docs) == MarshalLoop(docs, 1, <<Punct("[")>>)

\* the data saveSolrResp hands to dst.Write, or the encoding error (lines
\* 170-185)
EncodePage(emptyfl, docs) ==
    IF emptyfl THEN rmVerField(docs)
    ELSE [err |-> FALSE, data |-> Append(MarshalDocs(docs), Punct("\n"))]

Msg(text, file) == [msg |-> text, file |-> file]

\* saveSolrResp writing the array as it encodes it: when a document does not
\* decode, "[" and the documents before it have reached dst
saveSolrRespStreams(emptyfl, docs, n) ==
    LET enc == EncodePage(emptyfl, docs)
        first == Unmarshal(docs[1])
    IN  IF enc.err
        THEN [res |-> "encodeErr", wrote |-> TRUE,
              out |-> IF first.err THEN <<Punct("[")>>
                      ELSE <<Punct("["),
                             DocTok(MarshalMap(DeleteVersion(first.map))),
                             Punct(",")>>,
              msg |-> Msg("error of Solr document proccessing", <<>>)]
        ELSE IF n < Len(enc.data)
        THEN [res |-> "writeErr", wrote |-> TRUE, out |-> SubSeq(enc.data, 1, n),
              msg |-> Msg("error of writing", <<>>)]
        ELSE [res |-> "ok", wrote |-> TRUE, out |-> enc.data,
              msg |-> Msg("", <<>>)]

\* saveSolrResp(dst, emptyfl, v) for the documents docs of v and a dst.Write
\* that writes n tokens of its data: an encoding error is printed and returned
\* with nothing written; else dst.Write is called once, and fails, printed and
\* returned, when it writes fewer tokens than the data has.  res is the
\* outcome, out what dst has received, msg what was printed
saveSolrResp(emptyfl, docs, n) ==
    LET enc == EncodePage(emptyfl, docs)
    IN  IF enc.err
        THEN [res |-> "encodeErr", wrote |-> FALSE, out |-> <<>>,
              msg |-> Msg("error of Solr document proccessing", <<>>)]
        ELSE IF n < Len(enc.data)
        THEN [res |-> "writeErr", wrote |-> TRUE, out |-> SubSeq(enc.data, 1, n),
              msg |-> Msg("error of writing", <<>>)]
        ELSE [res |-> "ok", wrote |-> TRUE, out |-> enc.data,
              msg |-> Msg("", <<>>)]

(***************************************************************************)
(* The inputs of a run.                                                    *)
(***************************************************************************)
\* http://s:8/solr/c
LinkPort ==
    <<"h", "t", "t", "p", ":", "/", "/", "s", ":", "8",
      "/", "s", "o", "l", "r", "/", "c">>

\* https://s/solr/c/
LinkSlash ==
    <<"h", "t", "t", "p", "s", ":", "/", "/", "s",
      "/", "s", "o", "l", "r", "/", "c", "/">>

\* http://s:8/c, which reLink rejects
LinkNoSolr == <<"h", "t", "t", "p", ":", "/", "/", "s", ":", "8", "/", "c">>

\* http://s:x/solr/c, which reLink rejects and url.Parse cannot parse
LinkBadPort ==
    <<"h", "t", "t", "p", ":", "/", "/", "s", ":", "x",
      "/", "s", "o", "l", "r", "/", "c">>

SortId == <<"i", "d", " ", "a", "s", "c">>

FlId == <<"i", "d", ",", "n">>

Perms755 == <<"0", "7", "5", "5">>

BaseArgs ==
    [hasC |-> TRUE, c |-> LinkPort, hasS |-> TRUE, s |-> SortId, f |-> <<>>,
     d |-> <<".">>, m |-> Perms755, u |-> <<>>, p |-> <<>>,
     envUser |-> <<"u">>, envPassw |-> <<"w">>]

\* the command lines of the model: the README's, one with a field list, a
\* destination and credentials, and one for each way parceArgs fails
ArgSet ==
    {BaseArgs,
     [BaseArgs EXCEPT !.c = LinkSlash, !.f = FlId, !.d = <<"/", "t">>,
                      !.u = <<"a">>, !.p = <<"b">>],
     [BaseArgs EXCEPT !.c = LinkNoSolr],
     [BaseArgs EXCEPT !.m = <<"9">>],
     [BaseArgs EXCEPT !.hasS = FALSE, !.s = <<>>]}

\* the moments mkDir may read from time.Now()
Times ==
    {[year |-> 2018, month |-> 10, day |-> 17, hour |-> 16, min |-> 2, sec |-> 27]}

\* documents: _version_ is a long far above 2^53
DocA == Object(<<Member("id", Str("a")), Member("_version_", Num(1, 6))>>)

DocB == Object(<<Member("n", Num(0, 5)), Member("id", Str("b"))>>)

\* a long field holding 2^53 + 1
DocBig == Object(<<Member("id", Str("c")), Member("n", Num(1, 1))>>)

\* a document that is valid JSON and no object
DocScalar == Scalar(Num(0, 7))

\* the pages the producer may yield
Pages == {<<DocA, DocBig>>, <<DocB, DocScalar>>}

PageResult(page) == [err |-> FALSE, page |-> page]

ErrorResult == [err |-> TRUE, page |-> <<>>]

(***************************************************************************)
(* The state of a run.                                                     *)
(***************************************************************************)
VARIABLES
    pc,           \* the statement main is at
    args,         \* the command line and the environment
    colName,      \* parceArgs' first result
    p,            \* the params
    closed,       \* the producer has closed the results channel
    pulled,       \* the results received so far, in order
    namePattern,  \* defNamePattern's result
    fullDirPath,  \* mkDir's result
    dirs,         \* the directories os.MkdirAll has created, in order
    i,            \* the number of the next file
    tasks,        \* the goroutines started, in the order of their start
    wg,           \* the WaitGroup's counter
    files,        \* the files of the dump directory: name -> bytes
    statusCode,   \* the status the goroutines share
    exitCode,     \* <<>> while the process runs, <<status>> once it has exited
    stderr,       \* the messages printed to os.Stderr, as a bag
    overtaken     \* a goroutine has returned before one started earlier

vars ==
    <<pc, args, colName, p, closed, pulled, namePattern, fullDirPath, dirs, i,
      tasks, wg, files, statusCode, exitCode, stderr, overtaken>>

Init ==
    /\ args \in ArgSet
    /\ pc = "parceArgs"
    /\ colName = <<>>
    /\ p = NoParams
    /\ closed = FALSE
    /\ pulled = <<>>
    /\ namePattern = <<>>
    /\ fullDirPath = <<>>
    /\ dirs = <<>>
    /\ i = 1
    /\ tasks = <<>>
    /\ wg = 0
    /\ files = <<>>
    /\ statusCode = 0
    /\ exitCode = <<>>
    /\ stderr = EmptyBag
    /\ overtaken = FALSE

\* fmt.Fprintf(os.Stderr, ...): one more copy of the message m
Fprintf(out, m) == out (+) SetToBag({m})

\* the exit status a Unix parent sees for os.Exit(code)
ExitStatus(code) == code % 256

\* os.Exit(code): the process and all its goroutines end
OsExit(code) ==
    /\ pc' = "exited"
    /\ exitCode' = <<ExitStatus(code)>>

(***************************************************************************)
(* main up to the loop (lines 243-283).                                    *)
(***************************************************************************)
ParceArgs ==
    /\ pc = "parceArgs"
    /\ LET r == parceArgs(args)
       IN  IF r.err
           THEN /\ stderr' = Fprintf(stderr, Msg("usage", <<>>))
                /\ OsExit(11)
                /\ UNCHANGED <<colName, p>>
           ELSE /\ colName' = r.colName
                /\ p' = r.p
                /\ pc' = "CursorSelect"
                /\ UNCHANGED <<stderr, exitCode>>
    /\ UNCHANGED <<args, closed, pulled, namePattern, fullDirPath, dirs, i,
                   tasks, wg, files, statusCode, overtaken>>

\* glsolr.CursorSelect returns the channel or an error (ok = FALSE)
CursorSelect(ok) ==
    /\ pc = "CursorSelect"
    /\ IF ok
       THEN /\ pc' = "defNamePattern"
            /\ UNCHANGED <<stderr, exitCode>>
       ELSE /\ stderr' = Fprintf(stderr, Msg("wrong query", <<>>))
            /\ OsExit(-3)
    /\ UNCHANGED <<args, colName, p, closed, pulled, namePattern, fullDirPath,
                   dirs, i, tasks, wg, files, statusCode, overtaken>>

\* line 268: the error of defNamePattern is assigned and never read
DefNamePattern ==
    /\ pc = "defNamePattern"
    /\ namePattern' = defNamePattern(colName, p.cLink).namePattern
    /\ pc' = "mkDir"
    /\ UNCHANGED <<args, colName, p, closed, pulled, fullDirPath, dirs, i, tasks,
                   wg, files, statusCode, exitCode, stderr, overtaken>>

\* MkDir with a failure of os.MkdirAll printed and the run going on
MkDirGoesOn(now, ok) ==
    /\ pc = "mkDir"
    /\ IF ok
       THEN /\ dirs' = Append(dirs, DirPath(p.dstDir, namePattern, now))
            /\ fullDirPath' = DirPath(p.dstDir, namePattern, now)
            /\ UNCHANGED stderr
       ELSE /\ stderr' = Fprintf(stderr, Msg("output error", <<>>))
            /\ UNCHANGED <<dirs, fullDirPath>>
    /\ pc' = "loop"
    /\ UNCHANGED <<args, colName, p, closed, pulled, namePattern, i, tasks, wg,
                   files, statusCode, exitCode, overtaken>>

\* mkDir at the moment now; ok tells whether os.MkdirAll succeeds
MkDir(now, ok) ==
    /\ pc = "mkDir"
    /\ IF ok
       THEN /\ dirs' = Append(dirs, DirPath(p.dstDir, namePattern, now))
            /\ fullDirPath' = DirPath(p.dstDir, namePattern, now)
            /\ pc' = "loop"
            /\ UNCHANGED <<stderr, exitCode>>
       ELSE /\ stderr' = Fprintf(stderr, Msg("output error", <<>>))
            /\ OsExit(2)
            /\ UNCHANGED <<dirs, fullDirPath>>
    /\ UNCHANGED <<args, colName, p, closed, pulled, namePattern, i, tasks, wg,
                   files, statusCode, overtaken>>

(***************************************************************************)
(* The loop over the results channel (lines 286-312).                      *)
(***************************************************************************)
\* CanReceive with the loop held back while a goroutine is still writing
CanReceiveWhenIdle ==
    pc = "loop" /\ ~closed /\ Len(pulled) < MaxResults /\ wg = 0

\* for res := range results: main is at the head of the loop, and the producer,
\* which has not closed the channel, can send one more result
CanReceive == pc = "loop" /\ ~closed /\ Len(pulled) < MaxResults

\* RecvError with an error taking a file number
RecvErrorConsumes ==
    /\ CanReceive
    /\ pulled' = Append(pulled, ErrorResult)
    /\ stderr' = Fprintf(stderr, Msg("query error", <<>>))
    /\ i' = i + 1
    /\ UNCHANGED <<pc, args, colName, p, closed, namePattern, fullDirPath, dirs,
                   tasks, wg, files, statusCode, exitCode, overtaken>>

\* RecvError with the loop left at the first error
RecvErrorStops ==
    /\ CanReceive
    /\ pulled' = Append(pulled, ErrorResult)
    /\ stderr' = Fprintf(stderr, Msg("query error", <<>>))
    /\ pc' = "wait"
    /\ UNCHANGED <<args, colName, p, closed, namePattern, fullDirPath, dirs, i,
                   tasks, wg, files, statusCode, exitCode, overtaken>>

\* RecvError with the error recorded in the exit status
RecvErrorSetsStatus ==
    /\ CanReceive
    /\ pulled' = Append(pulled, ErrorResult)
    /\ stderr' = Fprintf(stderr, Msg("query error", <<>>))
    /\ statusCode' = 10
    /\ UNCHANGED <<pc, args, colName, p, closed, namePattern, fullDirPath, dirs,
                   i, tasks, wg, files, exitCode, overtaken>>

\* case error: the error is printed and the loop goes on
RecvError ==
    /\ CanReceive
    /\ pulled' = Append(pulled, ErrorResult)
    /\ stderr' = Fprintf(stderr, Msg("query error", <<>>))
    /\ UNCHANGED <<pc, args, colName, p, closed, namePattern, fullDirPath, dirs,
                   i, tasks, wg, files, statusCode, exitCode, overtaken>>

\* the goroutine of lines 298-310 as it starts: its argument fName, the v it
\* captured (a variable of this one execution of the case clause)
NewTask(fName, v) == [fName |-> fName, v |-> v, pc |-> "create", res |-> "running"]

\* RecvPage without the i++ of line 295
RecvPageNoIncr(page) ==
    /\ CanReceive
    /\ pulled' = Append(pulled, PageResult(page))
    /\ tasks' = Append(tasks,
                       NewTask(FullFileName(fullDirPath, namePattern, i), page))
    /\ wg' = wg + 1
    /\ UNCHANGED <<pc, args, colName, p, closed, namePattern, fullDirPath, dirs,
                   i, files, statusCode, exitCode, stderr, overtaken>>

\* case *glsolr.Response: the file name is made from i, i is incremented, the
\* goroutine is registered with the WaitGroup and started
RecvPage(page) ==
    /\ CanReceive
    /\ pulled' = Append(pulled, PageResult(page))
    /\ tasks' = Append(tasks,
                       NewTask(FullFileName(fullDirPath, namePattern, i), page))
    /\ i' = i + 1
    /\ wg' = wg + 1
    /\ UNCHANGED <<pc, args, colName, p, closed, namePattern, fullDirPath, dirs,
                   files, statusCode, exitCode, stderr, overtaken>>

\* the producer closes the channel and the range loop ends
RecvClose ==
    /\ pc = "loop"
    /\ ~closed
    /\ closed' = TRUE
    /\ pc' = "wait"
    /\ UNCHANGED <<args, colName, p, pulled, namePattern, fullDirPath, dirs, i,
                   tasks, wg, files, statusCode, exitCode, stderr, overtaken>>

\* Wait that returns while goroutines are still registered
WaitNoJoin ==
    /\ pc = "wait"
    /\ pc' = "exit"
    /\ UNCHANGED <<args, colName, p, closed, pulled, namePattern, fullDirPath,
                   dirs, i, tasks, wg, files, statusCode, exitCode, stderr,
                   overtaken>>

\* wg.Wait() returns when the counter is zero
Wait ==
    /\ pc = "wait"
    /\ wg = 0
    /\ pc' = "exit"
    /\ UNCHANGED <<args, colName, p, closed, pulled, namePattern, fullDirPath,
                   dirs, i, tasks, wg, files, statusCode, exitCode, stderr,
                   overtaken>>

\* Exit with a run that left no file counted as a failure
ExitFailsWhenEmpty ==
    /\ pc = "exit"
    /\ OsExit(IF DOMAIN files = {} THEN 10 ELSE statusCode)
    /\ UNCHANGED <<args, colName, p, closed, pulled, namePattern, fullDirPath,
                   dirs, i, tasks, wg, files, statusCode, stderr, overtaken>>

\* os.Exit(statusCode)
Exit ==
    /\ pc = "exit"
    /\ OsExit(statusCode)
    /\ UNCHANGED <<args, colName, p, closed, pulled, namePattern, fullDirPath,
                   dirs, i, tasks, wg, files, statusCode, stderr, overtaken>>

(***************************************************************************)
(* The write goroutine (lines 298-310) and saveSolrResp.                   *)
(***************************************************************************)
Running(t) == t \in 1..Len(tasks) /\ pc # "exited"

WriteFile(name, data) ==
    [n \in DOMAIN files \cup {name} |-> IF n = name THEN data ELSE files[n]]

\* the goroutine returns: the deferred dst.Close() and wg.Done() run
TaskReturn(t, res) ==
    /\ tasks' = [tasks EXCEPT ![t].pc = "done", ![t].res = res]
    /\ wg' = wg - 1
    /\ overtaken' = (overtaken \/ \E e \in 1..(t - 1) : tasks[e].pc # "done")

\* TaskCreate with the file name made when the goroutine runs, from the i
\* the goroutines and the loop would then share
TaskCreateSharedI(t, ok) ==
    /\ Running(t)
    /\ tasks[t].pc = "create"
    /\ IF ok
       THEN /\ files' = WriteFile(FullFileName(fullDirPath, namePattern, i), <<>>)
            /\ tasks' = [tasks EXCEPT
                             ![t].pc = "save",
                             ![t].fName = FullFileName(fullDirPath, namePattern, i)]
            /\ UNCHANGED <<wg, stderr, overtaken>>
       ELSE /\ stderr' = Fprintf(stderr, Msg("error of creating the file", tasks[t].fName))
            /\ TaskReturn(t, "createErr")
            /\ UNCHANGED files
    /\ UNCHANGED <<pc, args, colName, p, closed, pulled, namePattern, fullDirPath,
                   dirs, i, statusCode, exitCode>>

\* TaskCreate with the return of line 305 leaving the WaitGroup as it is
\* (wg.Done called at the end of the goroutine instead of deferred)
TaskCreateNoDone(t, ok) ==
    /\ Running(t)
    /\ tasks[t].pc = "create"
    /\ IF ok
       THEN /\ files' = WriteFile(tasks[t].fName, <<>>)
            /\ tasks' = [tasks EXCEPT ![t].pc = "save"]
            /\ UNCHANGED <<wg, stderr, overtaken>>
       ELSE /\ stderr' = Fprintf(stderr, Msg("error of creating the file", tasks[t].fName))
            /\ tasks' = [tasks EXCEPT ![t].pc = "done", ![t].res = "createErr"]
            /\ UNCHANGED <<files, wg, overtaken>>
    /\ UNCHANGED <<pc, args, colName, p, closed, pulled, namePattern, fullDirPath,
                   dirs, i, statusCode, exitCode>>

\* TaskCreate with a failed creation ending the process
TaskCreateFatal(t, ok) ==
    /\ Running(t)
    /\ tasks[t].pc = "create"
    /\ IF ok
       THEN /\ files' = WriteFile(tasks[t].fName, <<>>)
            /\ tasks' = [tasks EXCEPT ![t].pc = "save"]
            /\ UNCHANGED <<wg, stderr, overtaken, pc, exitCode>>
       ELSE /\ stderr' = Fprintf(stderr, Msg("error of creating the file", tasks[t].fName))
            /\ tasks' = [tasks EXCEPT ![t].res = "createErr"]
            /\ OsExit(10)
            /\ UNCHANGED <<files, wg, overtaken>>
    /\ UNCHANGED <<args, colName, p, closed, pulled, namePattern, fullDirPath,
                   dirs, i, statusCode>>

\* os.Create(fName): the file is created or truncated (ok), or the error is
\* printed and the goroutine returns
TaskCreate(t, ok) ==
    /\ Running(t)
    /\ tasks[t].pc = "create"
    /\ IF ok
       THEN /\ files' = WriteFile(tasks[t].fName, <<>>)
            /\ tasks' = [tasks EXCEPT ![t].pc = "save"]
            /\ UNCHANGED <<wg, stderr, overtaken>>
       ELSE /\ stderr' = Fprintf(stderr, Msg("error of creating the file", tasks[t].fName))
            /\ TaskReturn(t, "createErr")
            /\ UNCHANGED files
    /\ UNCHANGED <<pc, args, colName, p, closed, pulled, namePattern, fullDirPath,
                   dirs, i, statusCode, exitCode>>

\* TaskSave with the page read, when the goroutine runs, from a variable the
\* loop overwrites with every result: the page received last
TaskSaveLatestPage(t, n) ==
    /\ Running(t)
    /\ tasks[t].pc = "save"
    /\ LET r == saveSolrResp(p.fl = <<>>, tasks[Len(tasks)].v, n)
       IN  /\ r.res = "encodeErr" => n = 0
           /\ files' = IF r.wrote THEN WriteFile(tasks[t].fName, r.out) ELSE files
           /\ IF r.res = "ok"
              THEN /\ TaskReturn(t, "ok")
                   /\ UNCHANGED stderr
              ELSE /\ stderr' = Fprintf(stderr, r.msg)
                   /\ tasks' = [tasks EXCEPT ![t].pc = "status", ![t].res = r.res]
                   /\ UNCHANGED <<wg, overtaken>>
    /\ UNCHANGED <<pc, args, colName, p, closed, pulled, namePattern, fullDirPath,
                   dirs, i, statusCode, exitCode>>

\* TaskSave with the status set back to 0 by a goroutine that succeeded
TaskSaveResets(t, n) ==
    /\ Running(t)
    /\ tasks[t].pc = "save"
    /\ LET r == saveSolrResp(p.fl = <<>>, tasks[t].v, n)
       IN  /\ r.res = "encodeErr" => n = 0
           /\ files' = IF r.wrote THEN WriteFile(tasks[t].fName, r.out) ELSE files
           /\ IF r.res = "ok"
              THEN /\ TaskReturn(t, "ok")
                   /\ statusCode' = 0
                   /\ UNCHANGED stderr
              ELSE /\ stderr' = Fprintf(stderr, r.msg)
                   /\ tasks' = [tasks EXCEPT ![t].pc = "status", ![t].res = r.res]
                   /\ UNCHANGED <<wg, overtaken, statusCode>>
    /\ UNCHANGED <<pc, args, colName, p, closed, pulled, namePattern, fullDirPath,
                   dirs, i, exitCode>>

\* lines 307-309 and the return: saveSolrResp(dst, p.fl == "", v) with a
\* dst.Write that writes n tokens; on success the goroutine returns, on an
\* error it goes on to the store of line 308
TaskSave(t, n) ==
    /\ Running(t)
    /\ tasks[t].pc = "save"
    /\ LET r == saveSolrResp(p.fl = <<>>, tasks[t].v, n)
       IN  /\ r.res = "encodeErr" => n = 0
           /\ files' = IF r.wrote THEN WriteFile(tasks[t].fName, r.out) ELSE files
           /\ IF r.res = "ok"
              THEN /\ TaskReturn(t, "ok")
                   /\ UNCHANGED stderr
              ELSE /\ stderr' = Fprintf(stderr, r.msg)
                   /\ tasks' = [tasks EXCEPT ![t].pc = "status", ![t].res = r.res]
                   /\ UNCHANGED <<wg, overtaken>>
    /\ UNCHANGED <<pc, args, colName, p, closed, pulled, namePattern, fullDirPath,
                   dirs, i, statusCode, exitCode>>

\* line 308: statusCode = 10, a plain store to the variable all goroutines
\* share, ordered with no other goroutine's store; then the goroutine returns.
\* Every store to the variable writes the same word-sized 10, so whichever
\* store of a race comes last the variable holds 10
TaskSetStatus(t) ==
    /\ Running(t)
    /\ tasks[t].pc = "status"
    /\ statusCode' = 10
    /\ TaskReturn(t, tasks[t].res)
    /\ UNCHANGED <<pc, args, colName, p, closed, pulled, namePattern, fullDirPath,
                   dirs, i, files, exitCode, stderr>>

\* the numbers of tokens dst.Write may have written when it returns: all of
\* them, or a shorter prefix when it fails
Written(t) ==
    LET len == Len(EncodePage(p.fl = <<>>, tasks[t].v).data)
    IN  {len} \cup {n \in 0..MaxShort : n < len}

Next ==
    \/ ParceArgs
    \/ \E ok \in BOOLEAN : CursorSelect(ok)
    \/ DefNamePattern
    \/ \E now \in Times, ok \in BOOLEAN : MkDir(now, ok)
    \/ RecvError
    \/ \E page \in Pages : RecvPage(page)
    \/ RecvClose
    \/ Wait
    \/ Exit
    \/ \E t \in 1..Len(tasks), ok \in BOOLEAN : TaskCreate(t, ok)
    \/ \E t \in 1..Len(tasks) : \E n \in Written(t) : TaskSave(t, n)
    \/ \E t \in 1..Len(tasks) : TaskSetStatus(t)

Spec == Init /\ [][Next]_vars

(***************************************************************************)
(* The run under a fair scheduler, for streams of at most MaxFairResults   *)
(* results: while a statement of main or of a goroutine can run, or the    *)
(* producer can send or close, one of them does.  The producer sends       *)
(* finitely often, so this makes it close the channel, and it lets no      *)
(* goroutine and no statement of main wait forever.                        *)
(***************************************************************************)
FairNext ==
    \/ ParceArgs
    \/ \E ok \in BOOLEAN : CursorSelect(ok)
    \/ DefNamePattern
    \/ \E now \in Times, ok \in BOOLEAN : MkDir(now, ok)
    \/ Len(pulled) < MaxFairResults /\ RecvError
    \/ Len(pulled) < MaxFairResults /\ \E page \in Pages : RecvPage(page)
    \/ RecvClose
    \/ Wait
    \/ Exit
    \/ \E t \in 1..Len(tasks), ok \in BOOLEAN : TaskCreate(t, ok)
    \/ \E t \in 1..Len(tasks) : \E n \in Written(t) : TaskSave(t, n)
    \/ \E t \in 1..Len(tasks) : TaskSetStatus(t)

FairSpec == Init /\ [][FairNext]_vars /\ WF_vars(FairNext)

(***************************************************************************)
(* Vocabulary of the properties.                                           *)
(***************************************************************************)
\* main has left through the os.Exit of line 316
NormalExit == pc = "exited" /\ closed

\* the pages among the results received, in order
PulledPages == SelectSeq(pulled, LAMBDA r : ~r.err)

NoErrorPulled == \A k \in 1..Len(pulled) : ~pulled[k].err

\* "<dump directory>/<NamePattern><k>.json"
ExpectedName(k) ==
    fullDirPath \o <<"/">> \o namePattern \o Itoa(k) \o <<".", "j", "s", "o", "n">>

Printed(text) == {m \in BagToSet(stderr) : m.msg = text}

PrintedCount(text) == IF Printed(text) = {} THEN 0 ELSE stderr[Msg(text, <<>>)]

\* C1 (as claimed): when a stream of N pages and no error has been drained and
\* the process has exited through line 316, the run has created exactly N
\* files, and they are <dump directory>/<NamePattern>k.json for k in 1..N, the
\* k-th page received having been given the k-th name.
C1_ExactlyNFiles ==
    (NormalExit /\ NoErrorPulled) =>
        /\ Len(tasks) = Len(pulled)
        /\ \A k \in 1..Len(tasks) :
               /\ tasks[k].fName = ExpectedName(k)
               /\ tasks[k].v = pulled[k].page
        /\ DOMAIN files = {ExpectedName(k) : k \in 1..Len(pulled)}
        /\ Cardinality(DOMAIN files) = Len(pulled)

\* C1 (amended): when a stream of N pages and no error has been drained and
\* the process has exited through line 316, the k-th page received was handed,
\* with the name <dump directory>/<NamePattern>k.json, to the k-th goroutine,
\* for k in 1..N, and the files of the run are those N names less the ones
\* whose os.Create failed, whatever the order in which the goroutines ran.
C1_FilesNumberedInArrivalOrder ==
    (NormalExit /\ NoErrorPulled) =>
        /\ Len(tasks) = Len(pulled)
        /\ \A k \in 1..Len(tasks) :
               /\ tasks[k].fName = ExpectedName(k)
               /\ tasks[k].v = pulled[k].page
        /\ DOMAIN files =
               {ExpectedName(k) : k \in {t \in 1..Len(tasks) : tasks[t].res # "createErr"}}
        /\ Cardinality(DOMAIN files) =
               Cardinality({t \in 1..Len(tasks) : tasks[t].res # "createErr"})

\* C1 witness: three pages and no error, every file created, the goroutines
\* having returned out of the order of their start
C1_Witness ==
    /\ NormalExit
    /\ NoErrorPulled
    /\ Len(pulled) = 3
    /\ overtaken
    /\ \A t \in 1..Len(tasks) : tasks[t].res = "ok"
    /\ DOMAIN files = {ExpectedName(1), ExpectedName(2), ExpectedName(3)}

\* C2 (as claimed): after the exit of line 316 the status is zero exactly when
\* every goroutine created, encoded and wrote its file.
C2_ExitZeroIffAllWritesSucceeded ==
    NormalExit => (exitCode = <<0>> <=> \A t \in 1..Len(tasks) : tasks[t].res = "ok")

\* C3: errors take no file number: in every state i is one more than the
\* number of pages received, and the k-th page received, errors between the
\* pages or not, is the page of the k-th goroutine and has the name with k.
C3_ErrorsConsumeNoIndex ==
    /\ i = Len(PulledPages) + 1
    /\ Len(tasks) = Len(PulledPages)
    /\ \A k \in 1..Len(tasks) :
           /\ tasks[k].fName = FullFileName(fullDirPath, namePattern, k)
           /\ tasks[k].v = PulledPages[k].page

\* C3 witness: page, error, page; the run has ended with the files 1 and 2
C3_Witness ==
    /\ NormalExit
    /\ Len(pulled) = 3
    /\ ~pulled[1].err /\ pulled[2].err /\ ~pulled[3].err
    /\ DOMAIN files = {ExpectedName(1), ExpectedName(2)}
    /\ \A t \in 1..Len(tasks) : tasks[t].res = "ok"

\* the last result received is an error and the producer has sent no close
AfterError == Len(pulled) > 0 /\ pulled[Len(pulled)].err /\ ~closed

\* C4: an error does not end the loop.  When the last result received is an
\* error and the producer has not closed the channel, main is still in the
\* loop, ready to receive what the producer sends next; main is
\* past the loop only once the producer has closed the channel; every error
\* received was printed; and every page received, after an error or not, has
\* its goroutine.
C4_ErrorKeepsDraining ==
    /\ AfterError => pc = "loop"
    /\ (AfterError /\ Len(pulled) < MaxResults) => CanReceive
    /\ pc \in {"wait", "exit"} => closed
    /\ PrintedCount("query error") = Len(pulled) - Len(PulledPages)
    /\ Len(tasks) = Len(PulledPages)

\* C4 witness: a page received after an error has been written, and the run
\* has ended
C4_Witness ==
    /\ NormalExit
    /\ Len(pulled) >= 2
    /\ pulled[1].err
    /\ ~pulled[Len(pulled)].err
    /\ tasks[Len(tasks)].res = "ok"
    /\ PrintedCount("query error") >= 1

\* C5: main reaches the os.Exit of line 316, and leaves through it, only when
\* every goroutine it started has returned.
C5_ExitAfterAllTasks ==
    (pc = "exit" \/ NormalExit) =>
        /\ wg = 0
        /\ \A t \in 1..Len(tasks) : tasks[t].pc = "done"

\* C5 witness: the process has exited after three goroutines, which returned
\* out of the order of their start
C5_Witness ==
    /\ NormalExit
    /\ Len(tasks) = 3
    /\ overtaken
    /\ \A t \in 1..Len(tasks) : tasks[t].pc = "done"

Failures == {"createErr", "encodeErr", "writeErr"}

\* the step in which goroutine t fails
FailsIn(t) == tasks[t].res \notin Failures /\ tasks'[t].res \in Failures

\* C6: a failure stays with its file.  The step in which one goroutine fails
\* leaves main where it is (the loop, if it is in the loop, can go on
\* receiving), ends no process, and changes no other goroutine and no other
\* file; and a goroutine that succeeded has written its whole page, whatever
\* happened to the others.
C6_FailureIsScoped ==
    /\ [][\A t \in 1..Len(tasks) : FailsIn(t) =>
              /\ pc' = pc /\ exitCode' = exitCode
              /\ closed' = closed /\ pulled' = pulled /\ i' = i
              /\ \A u \in 1..Len(tasks) : u # t => tasks'[u] = tasks[u]
              /\ \A f \in DOMAIN files \ {tasks[t].fName} :
                     f \in DOMAIN files' /\ files'[f] = files[f]]_vars
    /\ [](\A t \in 1..Len(tasks) : tasks[t].res = "ok" =>
              /\ tasks[t].fName \in DOMAIN files
              /\ files[tasks[t].fName] = EncodePage(p.fl = <<>>, tasks[t].v).data)

\* C6 witness: the first goroutine could not create its file, the second
\* failed in saveSolrResp, and the third, started last, wrote its whole file
C6_Witness ==
    /\ NormalExit
    /\ Len(tasks) = 3
    /\ tasks[1].res = "createErr"
    /\ tasks[2].res \in {"encodeErr", "writeErr"}
    /\ tasks[3].res = "ok"
    /\ files[tasks[3].fName] = EncodePage(p.fl = <<>>, tasks[3].v).data

\* C7 (as claimed): no two goroutines are at the store of line 308 at once,
\* that is, the stores to statusCode are ordered by some synchronization.
C7_StatusStoresAreOrdered ==
    \A t, u \in 1..Len(tasks) :
        (tasks[t].pc = "status" /\ tasks[u].pc = "status") => t = u

\* C8: the goroutines of a run have pairwise different file names, the name
\* of the k-th being the one with the number k, and the name a goroutine was
\* started with never changes.
C8_FileNamesNeverReused ==
    /\ [](\A t, u \in 1..Len(tasks) :
              /\ tasks[t].fName = ExpectedName(t)
              /\ tasks[t].fName = tasks[u].fName => t = u)
    /\ [][\A t \in 1..Len(tasks) : tasks'[t].fName = tasks[t].fName]_vars

\* C8 witness: three goroutines have run to their end and left three files
C8_Witness ==
    /\ Len(tasks) = 3
    /\ Cardinality({tasks[t].fName : t \in 1..3}) = 3
    /\ Cardinality(DOMAIN files) = 3
    /\ \A t \in 1..3 : tasks[t].pc = "done"

(***************************************************************************)
(* The content of a document: its members as a mapping from name to value, *)
(* a later member of the same name replacing an earlier one.               *)
(***************************************************************************)
Fields(doc) ==
    LET keys == {doc.members[k].k : k \in 1..Len(doc.members)}
        last(key) == CHOOSE k \in 1..Len(doc.members) :
                         /\ doc.members[k].k = key
                         /\ \A j \in (k + 1)..Len(doc.members) : doc.members[j].k # key
    IN  [key \in keys |-> doc.members[last(key)].v]

Without(map, key) == [k \in DOMAIN map \ {key} |-> map[k]]

\* the documents of a file, in order
DocsOf(data) ==
    LET toks == SelectSeq(data, LAMBDA tok : tok.p = "")
    IN  [k \in 1..Len(toks) |-> toks[k].d]

\* C9 (as claimed): in a file that was written, the j-th document is the j-th
\* document of the page with _version_ removed and every other field as it
\* was when the field list is empty, and with exactly the fields of the
\* input when a field list was given.
C9_OnlyVersionIsRemoved ==
    \A t \in 1..Len(tasks) : tasks[t].res = "ok" =>
        LET out == DocsOf(files[tasks[t].fName])
            in == tasks[t].v
        IN  /\ Len(out) = Len(in)
            /\ \A j \in 1..Len(in) :
                   /\ out[j].obj = in[j].obj
                   /\ out[j].scalar = in[j].scalar
                   /\ Fields(out[j]) =
                          IF p.fl = <<>> THEN Without(Fields(in[j]), "_version_")
                          ELSE Fields(in[j])

\* C10: os.MkdirAll succeeds at most once in a run, and has succeeded, giving
\* the directory of every file name, before main is in the loop, a result is
\* received, a file number is taken or a goroutine is started; and when it
\* fails the process has exited with a status other than zero, and no result
\* was received, no number taken, no goroutine started and no file created.
C10_DirectoryFirst ==
    /\ Len(dirs) <= 1
    /\ (pc \in {"loop", "wait", "exit"} \/ pulled # <<>> \/ tasks # <<>>
            \/ i # 1 \/ DOMAIN files # {})
           => /\ Len(dirs) = 1
              /\ dirs[1] = fullDirPath
              /\ \A t \in 1..Len(tasks) :
                     HasPrefix(tasks[t].fName, dirs[1] \o <<"/">>)
    /\ Printed("output error") # {}
           => /\ pc = "exited"
              /\ exitCode # <<0>>
              /\ dirs = <<>> /\ pulled = <<>> /\ tasks = <<>>
              /\ i = 1 /\ DOMAIN files = {}

\* C10 witness: os.MkdirAll failed and the run has ended with status 2
C10_Witness ==
    /\ pc = "exited"
    /\ Printed("output error") # {}
    /\ exitCode = <<2>>
    /\ dirs = <<>>

\* C11: when the producer closes the channel before it has sent anything, the
\* run has made its dump directory, starts no goroutine, leaves no file, takes
\* no file number, prints nothing and exits with status 0.
C11_EmptyStream ==
    (NormalExit /\ pulled = <<>>) =>
        /\ Len(dirs) = 1
        /\ dirs[1] = fullDirPath
        /\ tasks = <<>>
        /\ DOMAIN files = {}
        /\ i = 1
        /\ stderr = EmptyBag
        /\ exitCode = <<0>>

\* C11 witness: the run over an empty stream has ended
C11_Witness ==
    /\ NormalExit
    /\ pulled = <<>>
    /\ Len(dirs) = 1
    /\ exitCode = <<0>>

\* the class of a run that has ended: which failure, if any, it met
ExitClass ==
    IF Printed("usage") # {} THEN "arguments"
    ELSE IF Printed("wrong query") # {} THEN "query"
    ELSE IF Printed("output error") # {} THEN "directory"
    ELSE IF \E t \in 1..Len(tasks) : tasks[t].res # "ok" THEN "write"
    ELSE "success"

\* C12 (as claimed): a run that has ended has the status 0 on full success and
\* one of four different statuses other than 0 otherwise: 11 for the
\* arguments, 253 (os.Exit(-3)) for the query, 2 for the directory, 10 when a
\* page's file could not be created, encoded or written; and a run that ended
\* for one of the first three has received no result and started no goroutine.
C12_ExitStatusTellsTheClass ==
    pc = "exited" =>
        /\ exitCode = <<CASE ExitClass = "arguments" -> 11
                          [] ExitClass = "query" -> 253
                          [] ExitClass = "directory" -> 2
                          [] ExitClass = "write" -> 10
                          [] OTHER -> 0>>
        /\ ExitClass \in {"arguments", "query", "directory"}
               => (pulled = <<>> /\ tasks = <<>> /\ DOMAIN files = {})

\* C13 (as claimed): the params built from a command line without -u (without
\* -p) hold the value of SOLRUSER (of SOLRPASSW) as the user name (password).
C13_CredentialsFromEnvironment ==
    pc \notin {"parceArgs", "exited"} =>
        /\ p.user = IF args.u = <<>> THEN args.envUser ELSE args.u
        /\ p.passw = IF args.p = <<>> THEN args.envPassw ELSE args.p

\* what tells one document of the model from another: an object's "id", or
\* the value of a document that is no object
Identity(doc) ==
    IF doc.obj /\ "id" \in DOMAIN Fields(doc) THEN Fields(doc)["id"] ELSE doc.scalar

\* C14: a file that was written, the k-th of the run, holds the documents of
\* the k-th page received and of no other: as many array elements as the page
\* has documents, the j-th element being the j-th document, with and without
\* the stripping of _version_, whatever was received before the goroutine ran.
C14_PageBoundToIndex ==
    \A k \in 1..Len(tasks) : tasks[k].res = "ok" =>
        LET out == DocsOf(files[ExpectedName(k)])
            in == PulledPages[k].page
        IN  /\ Len(out) = Len(in)
            /\ \A j \in 1..Len(in) :
                   /\ out[j].obj = in[j].obj
                   /\ Identity(out[j]) = Identity(in[j])

\* C14 witness: two different pages of two documents, the second received
\* before the first goroutine ran and written first; both files are written
C14_Witness ==
    /\ NormalExit
    /\ Len(tasks) >= 2
    /\ overtaken
    /\ tasks[1].v # tasks[2].v
    /\ Len(tasks[1].v) = 2
    /\ tasks[1].res = "ok" /\ tasks[2].res = "ok"

\* the goroutines that have not returned
InFlight == {t \in 1..Len(tasks) : tasks[t].pc # "done"}

\* C15: starting a goroutine does not hold the loop back.  While main is in
\* the loop and the producer has more to send, the next result can be
\* received however many goroutines are still writing; the step that starts a
\* goroutine leaves main in the loop and runs no part of the goroutine; and
\* main is at wg.Wait only after the channel was closed.
C15_DispatchDoesNotBlock ==
    /\ []((pc = "loop" /\ Len(pulled) < MaxResults) => CanReceive)
    /\ [](pc = "wait" => closed)
    /\ [][Len(tasks') > Len(tasks) =>
              /\ pc' = "loop"
              /\ tasks'[Len(tasks')].pc = "create"
              /\ files' = files]_vars

\* C15 witness: main is in the loop, able to receive, with two goroutines
\* still writing
C15_Witness ==
    /\ CanReceive
    /\ Cardinality(InFlight) >= 2

\* C16: under a fair scheduler, with a producer that closes its channel,
\* every run ends: the process exits, be it from a failure before the loop or,
\* the loop left and every goroutine waited for at wg.Wait, through line 316,
\* whatever the goroutines met.
C16_Terminates == <>(pc = "exited")

\* C16 witness: a run has ended in which one goroutine returned early, its
\* file not created, and another went through saveSolrResp
C16_Witness ==
    /\ NormalExit
    /\ \E t \in 1..Len(tasks) : tasks[t].res = "createErr"
    /\ \E t \in 1..Len(tasks) : tasks[t].res \in {"ok", "encodeErr", "writeErr"}
    /\ wg = 0

\* the goroutines whose saveSolrResp returned an error
SaveFailed == {t \in 1..Len(tasks) : tasks[t].res \in {"encodeErr", "writeErr"}}

\* C18: the errors of the stream do not reach the exit status.  The step that
\* receives an error leaves statusCode, the file counter and the goroutines as
\* they are; and the status of a run that went through the loop is decided by
\* its goroutines alone, 10 when the saveSolrResp of one of them returned an
\* error and 0 otherwise, however many errors were received among the pages.
C18_ErrorsDoNotReachStatus ==
    /\ [][pulled' = Append(pulled, ErrorResult)
            => statusCode' = statusCode /\ i' = i /\ tasks' = tasks]_vars
    /\ [](NormalExit => exitCode = <<IF SaveFailed # {} THEN 10 ELSE 0>>)

\* C18 witness: a run that received an error and pages, all of them written,
\* has exited with status 0
C18_Witness ==
    /\ NormalExit
    /\ ~NoErrorPulled
    /\ Len(tasks) >= 2
    /\ \A t \in 1..Len(tasks) : tasks[t].res = "ok"
    /\ exitCode = <<0>>

\* C19: the status the goroutines share has two values and only rises.
\* statusCode is 0 or 10 in every state; no step takes it from 10 to anything
\* else; a goroutine whose saveSolrResp returned an error has stored 10 by the
\* time it is done; and a run that went through the loop with one such
\* goroutine or more exits with status 10, in whatever order the goroutines
\* ran and stored.
C19_StatusOnlyRises ==
    /\ [](statusCode \in {0, 10})
    /\ [][statusCode = 10 => statusCode' = 10]_vars
    /\ [](\A t \in SaveFailed : tasks[t].pc = "done" => statusCode = 10)
    /\ [](NormalExit /\ SaveFailed # {} => exitCode = <<10>>)

\* C19 witness: a run has exited with status 10 after two goroutines stored
\* the status and a third succeeded, the goroutines not having finished in the
\* order they were started
C19_Witness ==
    /\ NormalExit
    /\ Cardinality(SaveFailed) >= 2
    /\ \E t \in 1..Len(tasks) : tasks[t].res = "ok"
    /\ overtaken
    /\ exitCode = <<10>>

\* the file of goroutine t holds the first tokens of data, or none
HoldsPrefixOf(t, data) ==
    LET held == files[tasks[t].fName]
    IN  Len(held) <= Len(data) /\ held = SubSeq(data, 1, Len(held))

\* C20: what saveSolrResp writes it has encoded whole.  The file of a
\* goroutine whose page did not encode, at whichever document, exists and is
\* empty, and the goroutine has stored the failure status by the time it is
\* done; any other file holds nothing but
\* the first tokens of its page's whole encoding, all of them unless
\* dst.Write failed or has not run; and a file that holds something is not
\* written again, so that saveSolrResp writes to it at most once.
C20_EncodedWholeOrNotWritten ==
    /\ [](\A t \in 1..Len(tasks) :
              LET enc == EncodePage(p.fl = <<>>, tasks[t].v)
              IN  tasks[t].fName \in DOMAIN files =>
                      IF enc.err
                      THEN /\ files[tasks[t].fName] = <<>>
                           /\ tasks[t].res \in {"running", "encodeErr"}
                           /\ tasks[t].pc = "done" => statusCode = 10
                      ELSE /\ HoldsPrefixOf(t, enc.data)
                           /\ tasks[t].res # "encodeErr"
                           /\ files[tasks[t].fName] # enc.data
                                  => tasks[t].res \in {"running", "writeErr"})
    /\ [][\A f \in DOMAIN files :
              files[f] # <<>> => f \in DOMAIN files' /\ files'[f] = files[f]]_vars

\* C20 witness: the second document of a page did not decode, the first did;
\* the goroutine is done, its file is there and empty, the status is 10
C20_Witness ==
    \E t \in 1..Len(tasks) :
        /\ tasks[t].res = "encodeErr"
        /\ tasks[t].pc = "done"
        /\ Len(tasks[t].v) >= 2
        /\ ~Unmarshal(tasks[t].v[1]).err
        /\ Unmarshal(tasks[t].v[2]).err
        /\ tasks[t].fName \in DOMAIN files
        /\ files[tasks[t].fName] = <<>>
        /\ statusCode = 10

====
